---------------------------- MODULE Spec2Model ----------------------------
(***************************************************************************)
(* A model of the pull-request labeler (src/src/labeler.ts): the glob-rule *)
(* evaluator checkGlobs and the run() procedure that loads the label rule  *)
(* map, evaluates every label and calls the label mutators.                *)
(*                                                                         *)
(* Strings that are matched against globs are sequences of one-character   *)
(* strings, so that matching is computed character by character.           *)
(***************************************************************************)
EXTENDS Naturals, Sequences, FiniteSets

(***************************************************************************)
(* Bounds of the model.                                                    *)
(***************************************************************************)
MaxFiles == 2      \* longest changed-file list built from CoreFiles
MaxEntries == 2    \* longest rule sequence built from CoreEntries
MaxLabels == 2     \* most labels in a configuration document

(***************************************************************************)
(* Paths and glob strings.                                                 *)
(***************************************************************************)
foo_txt == <<"f","o","o",".","t","x","t">>
bar_txt == <<"b","a","r",".","t","x","t">>
foo_docx == <<"f","o","o",".","d","o","c","x">>
bar_docx == <<"b","a","r",".","d","o","c","x">>
go_mod == <<"g","o",".","m","o","d">>
a_md == <<"a",".","m","d">>
docs_a_md == <<"d","o","c","s","/","a",".","m","d">>
pkg_a_foo_txt ==
  <<"p","k","g","/","m","o","d","u","l","e","s","/","a","/","f","o","o",".","t","x","t">>
pkg_b_foo_txt ==
  <<"p","k","g","/","m","o","d","u","l","e","s","/","b","/","f","o","o",".","t","x","t">>

star_txt == <<"*",".","t","x","t">>
star_md == <<"*",".","m","d">>
not_star_md == <<"!","*",".","m","d">>
bar_star == <<"b","a","r","*">>
go_sum == <<"g","o",".","s","u","m">>
pkg_a_globstar ==
  <<"p","k","g","/","m","o","d","u","l","e","s","/","a","/","*","*">>

(***************************************************************************)
(* The minimatch library (imported at labeler.ts:4, not part of the        *)
(* repository's sources).  Modelled for the glob subset the rules use:     *)
(* literal characters, "?", "*" (stays inside one path segment and does    *)
(* not match a leading "."), a "**" segment (any number of segments, none  *)
(* starting with "."), and leading "!" negation.  Comment patterns ("#")   *)
(* and the empty pattern are outside the pattern universe.                 *)
(***************************************************************************)
RECURSIVE SplitFrom(_, _, _)
SplitFrom(s, i, cur) ==
  IF i > Len(s) THEN <<cur>>
  ELSE IF s[i] = "/" THEN <<cur>> \o SplitFrom(s, i + 1, <<>>)
  ELSE SplitFrom(s, i + 1, Append(cur, s[i]))

\* s.split("/")
SplitSlash(s) == SplitFrom(s, 1, <<>>)

Drop(s, k) == SubSeq(s, k + 1, Len(s))

RECURSIVE CharsMatch(_, _)
CharsMatch(seg, pat) ==
  IF pat = <<>> THEN seg = <<>>
  ELSE IF Head(pat) = "*"
    THEN \E k \in 0..Len(seg) : CharsMatch(Drop(seg, k), Tail(pat))
  ELSE IF Head(pat) = "?"
    THEN seg # <<>> /\ CharsMatch(Tail(seg), Tail(pat))
  ELSE seg # <<>> /\ Head(seg) = Head(pat) /\ CharsMatch(Tail(seg), Tail(pat))

Dotted(seg) == seg # <<>> /\ Head(seg) = "."

\* one path segment against one pattern segment
SegMatch(seg, pat) ==
  /\ (pat # <<>> /\ Head(pat) \in {"*", "?"}) => (seg # <<>> /\ ~Dotted(seg))
  /\ CharsMatch(seg, pat)

GLOBSTAR == <<"*","*">>

\* Minimatch.matchOne(file, pattern, partial = false)
RECURSIVE MatchOne(_, _)
MatchOne(fs, ps) ==
  IF ps = <<>> THEN fs = <<>>
  ELSE IF fs = <<>> THEN FALSE
  ELSE IF Head(ps) = GLOBSTAR
    THEN IF Len(ps) = 1
           THEN \A i \in 1..Len(fs) : ~Dotted(fs[i])
           ELSE \E k \in 0..(Len(fs) - 1) :
                  /\ \A i \in 1..k : ~Dotted(fs[i])
                  /\ MatchOne(Drop(fs, k), Tail(ps))
  ELSE SegMatch(Head(fs), Head(ps)) /\ MatchOne(Tail(fs), Tail(ps))

RECURSIVE NegateCount(_)
NegateCount(g) ==
  IF g # <<>> /\ Head(g) = "!" THEN 1 + NegateCount(Tail(g)) ELSE 0

\* new Minimatch(g) for a string g: parseNegate() strips the leading "!"s
Minimatch(g) ==
  [negate |-> NegateCount(g) % 2 = 1, pattern |-> Drop(g, NegateCount(g))]

\* matcher.match(f)
MatcherMatch(matcher, f) ==
  LET hit == MatchOne(SplitSlash(f), SplitSlash(matcher.pattern))
  IN  IF matcher.negate THEN ~hit ELSE hit


(***************************************************************************)
(* Configuration values (what yaml.load returns), tagged by their          *)
(* JavaScript type.                                                        *)
(***************************************************************************)
Undefined == [type |-> "undefined"]
Str(s) == [type |-> "string", val |-> s]
Num == [type |-> "number"]
Obj == [type |-> "object"]
Arr(items) == [type |-> "array", items |-> items]
\* MatchRule, labeler.ts:6
MatchRule(and, or) == [type |-> "rule", and |-> and, or |-> or]
\* MatchConfig, labeler.ts:8-11
MatchConfig(all, any) == [type |-> "config", all |-> all, any |-> any]

\* labeler.ts:148-156
toMatchConfig(config) ==
  IF config.type = "string"
    THEN MatchConfig(Undefined, Arr(<<config>>))
    ELSE config

\* new Minimatch(g) throws a TypeError unless g is a string
CompileThrows(items) == \E i \in 1..Len(items) : items[i].type # "string"

\* config.map((g) => new Minimatch(g))
Compile(items) == [i \in 1..Len(items) |-> Minimatch(items[i].val)]

\* labeler.ts:263-279; threw: some new Minimatch(g) raised
toMatchers(config) ==
  IF config.type = "array"
    THEN [threw |-> CompileThrows(config.items),
          matcherAll |-> IF CompileThrows(config.items) THEN <<>>
                         ELSE Compile(config.items),
          matcherAny |-> <<>>]
    ELSE LET andThrows == config.and # Undefined /\ CompileThrows(config.and.items)
             orThrows == config.or # Undefined /\ CompileThrows(config.or.items)
         IN  [threw |-> andThrows \/ orThrows,
              matcherAll |-> IF config.and # Undefined /\ ~andThrows /\ ~orThrows
                               THEN Compile(config.and.items) ELSE <<>>,
              matcherAny |-> IF config.or # Undefined /\ ~andThrows /\ ~orThrows
                               THEN Compile(config.or.items) ELSE <<>>]

RECURSIVE isMatchAllFrom(_, _, _)
isMatchAllFrom(changedFile, matchers, i) ==
  IF i > Len(matchers) THEN TRUE
  ELSE IF ~MatcherMatch(matchers[i], changedFile) THEN FALSE
  ELSE isMatchAllFrom(changedFile, matchers, i + 1)

\* faulty variant: line 180 without its "!", a matcher that matches ends the loop
isMatchAll_inverted(changedFile, matchers) ==
  \A i \in 1..Len(matchers) : ~MatcherMatch(matchers[i], changedFile)

\* labeler.ts:176-188
isMatchAll(changedFile, matchers) == isMatchAllFrom(changedFile, matchers, 1)

RECURSIVE isMatchAnyFrom(_, _, _)
isMatchAnyFrom(changedFile, matchers, i) ==
  IF i > Len(matchers) THEN FALSE
  ELSE IF MatcherMatch(matchers[i], changedFile) THEN TRUE
  ELSE isMatchAnyFrom(changedFile, matchers, i + 1)

\* labeler.ts:190-206
isMatchAny(changedFile, matchers) ==
  IF Len(matchers) = 0 THEN TRUE
  ELSE isMatchAnyFrom(changedFile, matchers, 1)

RECURSIVE checkAnyFrom(_, _, _, _)
checkAnyFrom(changedFiles, matcherAll, matcherAny, i) ==
  IF i > Len(changedFiles) THEN FALSE
  ELSE IF isMatchAll(changedFiles[i], matcherAll)
          /\ isMatchAny(changedFiles[i], matcherAny) THEN TRUE
  ELSE checkAnyFrom(changedFiles, matcherAll, matcherAny, i + 1)

\* faulty variant: the and-list and the or-list may be satisfied by different files
checkAny_differentFiles(changedFiles, matcherAll, matcherAny) ==
  /\ \E i \in 1..Len(changedFiles) : isMatchAll(changedFiles[i], matcherAll)
  /\ \E i \in 1..Len(changedFiles) : isMatchAny(changedFiles[i], matcherAny)

\* faulty variant: "return false" inside the loop, so only the first file is looked at
checkAny_firstFileOnly(changedFiles, matcherAll, matcherAny) ==
  /\ changedFiles # <<>>
  /\ isMatchAll(changedFiles[1], matcherAll)
  /\ isMatchAny(changedFiles[1], matcherAny)

\* labeler.ts:209-220
checkAny(changedFiles, matcherAll, matcherAny) ==
  checkAnyFrom(changedFiles, matcherAll, matcherAny, 1)

\* first loop of checkAll, labeler.ts:225-230: TRUE when it runs to its end
RECURSIVE checkAllFirstLoop(_, _, _)
checkAllFirstLoop(changedFiles, matcherAll, i) ==
  IF i > Len(changedFiles) THEN TRUE
  ELSE IF ~isMatchAll(changedFiles[i], matcherAll) THEN FALSE
  ELSE checkAllFirstLoop(changedFiles, matcherAll, i + 1)

\* second loop of checkAll, labeler.ts:233-238
RECURSIVE checkAllSecondLoop(_, _, _)
checkAllSecondLoop(changedFiles, matcherAny, i) ==
  IF i > Len(changedFiles) THEN TRUE
  ELSE IF ~isMatchAny(changedFiles[i], matcherAny) THEN FALSE
  ELSE checkAllSecondLoop(changedFiles, matcherAny, i + 1)

\* faulty variant: the second loop (the or-list) is left out
checkAll_skipsOrList(changedFiles, matcherAll, matcherAny) ==
  checkAllFirstLoop(changedFiles, matcherAll, 1)

\* faulty variant: an empty change set fails the condition
checkAll_needsFile(changedFiles, matcherAll, matcherAny) ==
  /\ changedFiles # <<>>
  /\ checkAllFirstLoop(changedFiles, matcherAll, 1)
  /\ checkAllSecondLoop(changedFiles, matcherAny, 1)

\* labeler.ts:223-242
checkAll(changedFiles, matcherAll, matcherAny) ==
  IF ~checkAllFirstLoop(changedFiles, matcherAll, 1) THEN FALSE
  ELSE IF ~checkAllSecondLoop(changedFiles, matcherAny, 1) THEN FALSE
  ELSE TRUE

\* faulty variant: "return true" once the `all` condition holds, `any` not looked at
checkMatch_allDecides(changedFiles, matchConfig) ==
  LET forAll == toMatchers(matchConfig.all)
      forAny == toMatchers(matchConfig.any)
  IN  IF matchConfig.all # Undefined
        THEN IF forAll.threw THEN "throw"
             ELSE IF checkAll(changedFiles, forAll.matcherAll, forAll.matcherAny)
               THEN "true" ELSE "false"
      ELSE IF matchConfig.any # Undefined /\ forAny.threw THEN "throw"
      ELSE IF matchConfig.any # Undefined
              /\ ~checkAny(changedFiles, forAny.matcherAll, forAny.matcherAny)
        THEN "false"
      ELSE "true"

\* labeler.ts:244-261; the outcome is "true", "false" or "throw"
checkMatch(changedFiles, matchConfig) ==
  LET forAll == toMatchers(matchConfig.all)
      forAny == toMatchers(matchConfig.any)
  IN  IF matchConfig.all # Undefined /\ forAll.threw THEN "throw"
      ELSE IF matchConfig.all # Undefined
              /\ ~checkAll(changedFiles, forAll.matcherAll, forAll.matcherAny)
        THEN "false"
      ELSE IF matchConfig.any # Undefined /\ forAny.threw THEN "throw"
      ELSE IF matchConfig.any # Undefined
              /\ ~checkAny(changedFiles, forAny.matcherAll, forAny.matcherAny)
        THEN "false"
      ELSE "true"

RECURSIVE checkGlobsFrom(_, _, _)
checkGlobsFrom(changedFiles, globs, i) ==
  IF i > Len(globs) THEN "false"
  ELSE LET outcome == checkMatch(changedFiles, toMatchConfig(globs[i]))
       IN  IF outcome = "false"
             THEN checkGlobsFrom(changedFiles, globs, i + 1)
             ELSE outcome

\* faulty variant: "return false" inside the loop, so only the first entry is tried
checkGlobs_firstEntryOnly(changedFiles, globs) ==
  IF globs = <<>> THEN "false"
  ELSE checkMatch(changedFiles, toMatchConfig(globs[1]))

\* labeler.ts:162-174
checkGlobs(changedFiles, globs) == checkGlobsFrom(changedFiles, globs, 1)


\* labeler.ts:129-146; threw: the Error of line 139 was raised, for `label`
RECURSIVE getLabelGlobMapFrom(_, _, _)
getLabelGlobMapFrom(configObject, i, labelGlobs) ==
  IF i > Len(configObject)
    THEN [threw |-> FALSE, label |-> "", map |-> labelGlobs]
  ELSE IF configObject[i].value.type = "string"
    THEN getLabelGlobMapFrom(configObject, i + 1,
           Append(labelGlobs, [label |-> configObject[i].label,
                               globs |-> <<configObject[i].value>>]))
  ELSE IF configObject[i].value.type = "array"
    THEN getLabelGlobMapFrom(configObject, i + 1,
           Append(labelGlobs, [label |-> configObject[i].label,
                               globs |-> configObject[i].value.items]))
  ELSE [threw |-> TRUE, label |-> configObject[i].label, map |-> <<>>]

\* faulty variant: a value of unexpected type is skipped instead of raising
RECURSIVE getLabelGlobMapSkipping(_, _, _)
getLabelGlobMapSkipping(configObject, i, labelGlobs) ==
  IF i > Len(configObject)
    THEN [threw |-> FALSE, label |-> "", map |-> labelGlobs]
  ELSE IF configObject[i].value.type = "string"
    THEN getLabelGlobMapSkipping(configObject, i + 1,
           Append(labelGlobs, [label |-> configObject[i].label,
                               globs |-> <<configObject[i].value>>]))
  ELSE IF configObject[i].value.type = "array"
    THEN getLabelGlobMapSkipping(configObject, i + 1,
           Append(labelGlobs, [label |-> configObject[i].label,
                               globs |-> configObject[i].value.items]))
  ELSE getLabelGlobMapSkipping(configObject, i + 1, labelGlobs)

getLabelGlobMapFromObject_skipsBad(configObject) ==
  getLabelGlobMapSkipping(configObject, 1, <<>>)

getLabelGlobMapFromObject(configObject) ==
  getLabelGlobMapFrom(configObject, 1, <<>>)

(***************************************************************************)
(* Input universes.                                                        *)
(***************************************************************************)
SeqsUpTo(S, n) == UNION {[1..k -> S] : k \in 0..n}
Range(s) == {s[i] : i \in 1..Len(s)}
Strs(gs) == Arr([i \in 1..Len(gs) |-> Str(gs[i])])

CoreFiles == {foo_txt, bar_docx, a_md, docs_a_md}
ExampleFileLists ==
  { <<foo_txt, bar_txt>>, <<foo_docx, bar_docx>>, <<bar_txt>>,
    <<pkg_a_foo_txt, go_mod>>, <<pkg_b_foo_txt, go_mod>> }
FileLists == SeqsUpTo(CoreFiles, MaxFiles) \cup ExampleFileLists

AllNotMd == MatchConfig(Strs(<<not_star_md>>), Undefined)
AnyTxtAndBar ==
  MatchConfig(Undefined, MatchRule(Strs(<<star_txt>>), Strs(<<bar_star>>)))
AnyBadPattern == MatchConfig(Undefined, Arr(<<Num>>))
AllTxt == MatchConfig(Strs(<<star_txt>>), Undefined)
AllOrPkg ==
  MatchConfig(MatchRule(Undefined, Strs(<<pkg_a_globstar, go_mod, go_sum>>)),
              Undefined)
AnyTxt == MatchConfig(Undefined, Strs(<<star_txt>>))

CoreEntries == {Str(star_txt), AllNotMd, AnyTxtAndBar, AnyBadPattern}
ExampleEntries ==
  { AllTxt, AllOrPkg, AnyTxt,
    MatchConfig(Undefined, Undefined),
    MatchConfig(Strs(<<star_txt>>), Strs(<<bar_star>>)),
    MatchConfig(Strs(<<star_txt, bar_star>>), Undefined),
    MatchConfig(MatchRule(Strs(<<star_txt>>), Strs(<<bar_star, star_md>>)),
                Undefined),
    MatchConfig(MatchRule(Strs(<<star_txt>>), Strs(<<>>)), Strs(<<>>)),
    MatchConfig(Undefined, Strs(<<<<"!", "!">> \o star_md>>)),
    MatchConfig(Arr(<<Str(star_txt), Num>>), Undefined) }
GlobSeqs ==
  SeqsUpTo(CoreEntries, MaxEntries) \cup {<<e>> : e \in ExampleEntries}

LabelNames == <<"bug", "docs", "tests", "ci">>
RawValues == {Str(star_txt), Arr(<<AllTxt>>), Arr(<<AnyBadPattern>>), Num, Obj}
ConfigObjects ==
  { [i \in 1..Len(v) |-> [label |-> LabelNames[i], value |-> v[i]]] :
      v \in SeqsUpTo(RawValues, MaxLabels) }
RunFileLists == {<<>>, <<foo_txt>>, <<foo_txt, bar_docx>>}
SyncInputs == {"", "true", "false"}

(***************************************************************************)
(* State of one run of the action.                                         *)
(***************************************************************************)
VARIABLES
  syncInput,      \* the "sync-labels" input as the workflow gives it
  prLabels,       \* labels the pull request carries on the remote host
  prFiles,        \* files the pull request changes on the remote host
  configObject,   \* yaml.load of the configuration file: <<[label, value]>>
  pc,             \* position in run()
  syncLabels,     \* labeler.ts:22
  pullRequest,    \* labels of the pull request as fetched at labeler.ts:32
  changedFiles,   \* labeler.ts:39
  labelGlobs,     \* labeler.ts:40, in Map insertion order
  idx,            \* position of the loop of labeler.ts:47
  labels,         \* labeler.ts:45
  labelsToRemove, \* labeler.ts:46
  outcomes,       \* what checkGlobs gave for each label processed so far
  addCalls,       \* label lists passed to issues.addLabels
  removeCalls,    \* names passed to issues.removeLabel
  failure,        \* kind of the error caught at labeler.ts:63, or "none"
  errLabel        \* label named by a configuration error

vars == <<syncInput, prLabels, prFiles, configObject, pc, syncLabels,
          pullRequest, changedFiles, labelGlobs, idx, labels, labelsToRemove,
          outcomes, addCalls, removeCalls, failure, errLabel>>

env == <<syncInput, prFiles, configObject>>

Locals ==
  /\ syncLabels = FALSE
  /\ pullRequest = {}
  /\ labels = <<>>
  /\ labelsToRemove = <<>>
  /\ outcomes = <<>>
  /\ addCalls = <<>>
  /\ removeCalls = <<>>
  /\ failure = "none"
  /\ errLabel = ""

Init ==
  /\ syncInput \in SyncInputs
  /\ prLabels \in SUBSET {LabelNames[i] : i \in 1..MaxLabels}
  /\ prFiles \in RunFileLists
  /\ configObject \in ConfigObjects
  /\ pc = "start"
  /\ changedFiles = <<>>
  /\ labelGlobs = <<>>
  /\ idx = 1
  /\ Locals

\* catch block, labeler.ts:63-66
Fail(kind, label) ==
  /\ pc' = "failed"
  /\ failure' = kind
  /\ errLabel' = label

\* labeler.ts:20-28
Start ==
  /\ pc = "start"
  /\ \E inputsGiven \in BOOLEAN, hasPr \in BOOLEAN :
       IF ~inputsGiven
         THEN Fail("input", "") /\ UNCHANGED syncLabels
         ELSE /\ syncLabels' = (syncInput # "")
              /\ pc' = IF hasPr THEN "pulls.get" ELSE "exit"
              /\ UNCHANGED <<failure, errLabel>>
  /\ UNCHANGED <<env, prLabels, pullRequest, changedFiles, labelGlobs, idx,
                 labels, labelsToRemove, outcomes, addCalls, removeCalls>>

\* labeler.ts:32-36
GetPullRequest ==
  /\ pc = "pulls.get"
  /\ \E ok \in BOOLEAN :
       IF ok
         THEN /\ pullRequest' = prLabels
              /\ pc' = "getChangedFiles"
              /\ UNCHANGED <<failure, errLabel>>
         ELSE Fail("io", "") /\ UNCHANGED pullRequest
  /\ UNCHANGED <<env, prLabels, syncLabels, changedFiles, labelGlobs, idx,
                 labels, labelsToRemove, outcomes, addCalls, removeCalls>>

\* labeler.ts:39, 78-97
GetChangedFiles ==
  /\ pc = "getChangedFiles"
  /\ \E ok \in BOOLEAN :
       IF ok
         THEN /\ changedFiles' = prFiles
              /\ pc' = "getLabelGlobs"
              /\ UNCHANGED <<failure, errLabel>>
         ELSE Fail("io", "") /\ UNCHANGED changedFiles
  /\ UNCHANGED <<env, prLabels, syncLabels, pullRequest, labelGlobs, idx,
                 labels, labelsToRemove, outcomes, addCalls, removeCalls>>

\* labeler.ts:40-46, 99-113
GetLabelGlobs ==
  /\ pc = "getLabelGlobs"
  /\ \E ok \in BOOLEAN :
       LET loaded == getLabelGlobMapFromObject(configObject)
       IN  IF ~ok
             THEN Fail("io", "") /\ UNCHANGED labelGlobs
           ELSE IF loaded.threw
             THEN Fail("config", loaded.label) /\ UNCHANGED labelGlobs
           ELSE /\ labelGlobs' = loaded.map
                /\ pc' = "loop"
                /\ UNCHANGED <<failure, errLabel>>
  /\ UNCHANGED <<env, prLabels, syncLabels, pullRequest, changedFiles, idx,
                 labels, labelsToRemove, outcomes, addCalls, removeCalls>>

\* faulty variant: a matching label is sent to addLabels inside the loop
ProcessLabel_addsEagerly ==
  /\ pc = "loop"
  /\ idx <= Len(labelGlobs)
  /\ LET label == labelGlobs[idx].label
         outcome == checkGlobs(changedFiles, labelGlobs[idx].globs)
     IN  /\ outcomes' = Append(outcomes, outcome)
         /\ IF outcome = "throw"
              THEN Fail("pattern", "")
                   /\ UNCHANGED <<idx, labels, labelsToRemove, addCalls>>
            ELSE /\ idx' = idx + 1
                 /\ labels' = IF outcome = "true"
                                THEN Append(labels, label) ELSE labels
                 /\ addCalls' = IF outcome = "true"
                                  THEN Append(addCalls, <<label>>) ELSE addCalls
                 /\ labelsToRemove' =
                      IF outcome = "false" /\ label \in pullRequest
                        THEN Append(labelsToRemove, label) ELSE labelsToRemove
                 /\ UNCHANGED <<pc, failure, errLabel>>
  /\ UNCHANGED <<env, prLabels, syncLabels, pullRequest, changedFiles,
                 labelGlobs, removeCalls>>

\* one iteration of the loop of labeler.ts:47-54
ProcessLabel ==
  /\ pc = "loop"
  /\ idx <= Len(labelGlobs)
  /\ LET label == labelGlobs[idx].label
         outcome == checkGlobs(changedFiles, labelGlobs[idx].globs)
     IN  /\ outcomes' = Append(outcomes, outcome)
         /\ IF outcome = "throw"
              THEN Fail("pattern", "") /\ UNCHANGED <<idx, labels, labelsToRemove>>
            ELSE /\ idx' = idx + 1
                 /\ labels' = IF outcome = "true"
                                THEN Append(labels, label) ELSE labels
                 /\ labelsToRemove' =
                      IF outcome = "false" /\ label \in pullRequest
                        THEN Append(labelsToRemove, label) ELSE labelsToRemove
                 /\ UNCHANGED <<pc, failure, errLabel>>
  /\ UNCHANGED <<env, prLabels, syncLabels, pullRequest, changedFiles,
                 labelGlobs, addCalls, removeCalls>>

\* labeler.ts:56-58, 281-292
AddLabels ==
  /\ pc = "loop"
  /\ idx > Len(labelGlobs)
  /\ IF Len(labels) > 0
       THEN /\ addCalls' = Append(addCalls, labels)
            /\ \E ok \in BOOLEAN :
                 IF ok
                   THEN /\ prLabels' = prLabels \cup Range(labels)
                        /\ pc' = "removeLabels"
                        /\ UNCHANGED <<failure, errLabel>>
                   ELSE Fail("io", "") /\ UNCHANGED prLabels
       ELSE /\ pc' = "removeLabels"
            /\ UNCHANGED <<addCalls, prLabels, failure, errLabel>>
  /\ UNCHANGED <<env, syncLabels, pullRequest, changedFiles, labelGlobs, idx,
                 labels, labelsToRemove, outcomes, removeCalls>>

\* labeler.ts:60-62, 294-309: one removeLabel request per label, all started
\* before any is awaited; when some request fails the others may have succeeded
RemoveLabels ==
  /\ pc = "removeLabels"
  /\ IF syncLabels /\ Len(labelsToRemove) > 0
       THEN /\ removeCalls' = removeCalls \o labelsToRemove
            /\ \E done \in SUBSET Range(labelsToRemove) :
                 /\ prLabels' = prLabels \ done
                 /\ IF done = Range(labelsToRemove)
                      THEN pc' = "done" /\ UNCHANGED <<failure, errLabel>>
                      ELSE Fail("io", "")
       ELSE /\ pc' = "done"
            /\ UNCHANGED <<removeCalls, prLabels, failure, errLabel>>
  /\ UNCHANGED <<env, syncLabels, pullRequest, changedFiles, labelGlobs, idx,
                 labels, labelsToRemove, outcomes, addCalls>>

Next ==
  \/ Start
  \/ GetPullRequest
  \/ GetChangedFiles
  \/ GetLabelGlobs
  \/ ProcessLabel
  \/ AddLabels
  \/ RemoveLabels

Spec == Init /\ [][Next]_vars

(***************************************************************************)
(* checkGlobs applied to one rule sequence: the run stands at the loop of  *)
(* labeler.ts:47 with a one-label rule map and any changed-file list.      *)
(***************************************************************************)
EvalInit ==
  /\ syncInput = ""
  /\ prLabels = {}
  /\ prFiles \in FileLists
  /\ \E globs \in GlobSeqs :
       /\ configObject = <<[label |-> LabelNames[1], value |-> Arr(globs)]>>
       /\ labelGlobs = getLabelGlobMapFromObject(configObject).map
  /\ pc = "loop"
  /\ changedFiles = prFiles
  /\ idx = 1
  /\ Locals

EvalNext == ProcessLabel

EvalSpec == EvalInit /\ [][EvalNext]_vars

TypeOK ==
  /\ pc \in {"start", "exit", "pulls.get", "getChangedFiles", "getLabelGlobs",
             "loop", "removeLabels", "done", "failed"}
  /\ failure \in {"none", "input", "io", "config", "pattern"}
  /\ (pc = "failed") = (failure # "none")
  /\ syncLabels \in BOOLEAN
  /\ idx \in 1..(Len(labelGlobs) + 1)
  /\ Len(outcomes) \in {idx - 1, idx}
  /\ \A i \in 1..Len(outcomes) : outcomes[i] \in {"true", "false", "throw"}

(***************************************************************************)
(* What the rules mean, stated over patterns and files without the code's  *)
(* loops: the properties below compare the code against these.             *)
(***************************************************************************)
Processed == 1..Len(outcomes)
GlobsOf(i) == labelGlobs[i].globs
EntryOf(i, k) == toMatchConfig(GlobsOf(i)[k])
EntryOutcome(i, k) == checkMatch(changedFiles, EntryOf(i, k))

PatternMatches(g, f) == MatcherMatch(Minimatch(g), f)

AllStrings(list) ==
  list # Undefined => \A j \in 1..Len(list.items) : list.items[j].type = "string"

\* every pattern of the condition is a string, so compiling it cannot throw
WellTyped(cond) ==
  IF cond = Undefined THEN TRUE
  ELSE IF cond.type = "array" THEN AllStrings(cond)
  ELSE AllStrings(cond.and) /\ AllStrings(cond.or)

ItemsOf(list) == IF list = Undefined THEN <<>> ELSE list.items
AndList(cond) == IF cond.type = "array" THEN cond.items ELSE ItemsOf(cond.and)
OrList(cond) == IF cond.type = "array" THEN <<>> ELSE ItemsOf(cond.or)

SatisfiesAnd(f, cond) ==
  \A j \in 1..Len(AndList(cond)) : PatternMatches(AndList(cond)[j].val, f)
SatisfiesOr(f, cond) ==
  \/ OrList(cond) = <<>>
  \/ \E j \in 1..Len(OrList(cond)) : PatternMatches(OrList(cond)[j].val, f)

AllHolds(files, cond) ==
  /\ \A i \in 1..Len(files) : SatisfiesAnd(files[i], cond)
  /\ \A i \in 1..Len(files) : SatisfiesOr(files[i], cond)
AnyHolds(files, cond) ==
  \E i \in 1..Len(files) : SatisfiesAnd(files[i], cond) /\ SatisfiesOr(files[i], cond)

Bool(b) == IF b THEN "true" ELSE "false"

(***************************************************************************)
(* C1: checkGlobs returns true iff at least one entry of the rule sequence *)
(* matches; entries are tried in input order and evaluation stops at the   *)
(* first entry that matches (a later entry that would throw is never       *)
(* reached); an empty sequence gives false.                                *)
(***************************************************************************)
C1_CheckGlobsIsOrOfEntries ==
  \A i \in Processed :
    LET n == Len(GlobsOf(i))
        FirstMatch(k) == /\ EntryOutcome(i, k) = "true"
                         /\ \A j \in 1..(k - 1) : EntryOutcome(i, j) = "false"
    IN  /\ (outcomes[i] = "true") <=> (\E k \in 1..n : FirstMatch(k))
        /\ (\A k \in 1..n : EntryOutcome(i, k) # "throw")
             => outcomes[i] = Bool(\E k \in 1..n : EntryOutcome(i, k) = "true")
        /\ n = 0 => outcomes[i] = "false"

C1_Witness ==
  \E i \in Processed :
    /\ Len(GlobsOf(i)) = 2
    /\ EntryOutcome(i, 1) = "false"
    /\ EntryOutcome(i, 2) = "true"
    /\ outcomes[i] = "true"

(***************************************************************************)
(* C2: an `all` condition is true iff every changed file matches every     *)
(* pattern of the and-list (a plain list is the and-list) and every        *)
(* changed file matches at least one pattern of the or-list, an absent or  *)
(* empty or-list being satisfied by every file; with the examples of the   *)
(* test suite.                                                             *)
(***************************************************************************)
C2_AllCondition ==
  \A i \in Processed :
    /\ \A k \in 1..Len(GlobsOf(i)) :
         LET cond == EntryOf(i, k).all
             m == toMatchers(cond)
         IN  (cond # Undefined /\ WellTyped(cond))
               => checkAll(changedFiles, m.matcherAll, m.matcherAny)
                    = AllHolds(changedFiles, cond)
    /\ (Len(GlobsOf(i)) = 1 /\ GlobsOf(i)[1].type = "config"
        /\ GlobsOf(i)[1].any = Undefined /\ GlobsOf(i)[1].all # Undefined
        /\ WellTyped(GlobsOf(i)[1].all))
         => outcomes[i] = Bool(AllHolds(changedFiles, GlobsOf(i)[1].all))
    /\ (GlobsOf(i) = <<AllTxt>> /\ changedFiles = <<foo_txt, bar_txt>>)
         => outcomes[i] = "true"
    /\ (GlobsOf(i) = <<AllTxt>> /\ changedFiles = <<foo_txt, bar_docx>>)
         => outcomes[i] = "false"
    /\ (GlobsOf(i) = <<AllOrPkg>> /\ changedFiles = <<pkg_a_foo_txt, go_mod>>)
         => outcomes[i] = "true"
    /\ (GlobsOf(i) = <<AllOrPkg>> /\ changedFiles = <<pkg_b_foo_txt, go_mod>>)
         => outcomes[i] = "false"

C2_Witness ==
  \E i \in Processed :
    /\ GlobsOf(i) = <<AllOrPkg>>
    /\ changedFiles = <<pkg_b_foo_txt, go_mod>>
    /\ outcomes[i] = "false"

(***************************************************************************)
(* C3: an `any` condition is true iff one single changed file matches      *)
(* every pattern of the and-list (a plain list is the and-list) and at     *)
(* least one pattern of the or-list (absent or empty: passed by any file); *)
(* one file for the and-list and another for the or-list is not enough.    *)
(***************************************************************************)
C3_AnyCondition ==
  \A i \in Processed :
    /\ \A k \in 1..Len(GlobsOf(i)) :
         LET cond == EntryOf(i, k).any
             m == toMatchers(cond)
         IN  (cond # Undefined /\ WellTyped(cond))
               => checkAny(changedFiles, m.matcherAll, m.matcherAny)
                    = AnyHolds(changedFiles, cond)
    /\ (Len(GlobsOf(i)) = 1 /\ EntryOf(i, 1).all = Undefined
        /\ EntryOf(i, 1).any # Undefined /\ WellTyped(EntryOf(i, 1).any))
         => outcomes[i] = Bool(AnyHolds(changedFiles, EntryOf(i, 1).any))
    /\ (GlobsOf(i) = <<AnyTxt>> /\ changedFiles = <<foo_txt, bar_docx>>)
         => outcomes[i] = "true"
    /\ (GlobsOf(i) = <<AnyTxt>> /\ changedFiles = <<foo_docx, bar_docx>>)
         => outcomes[i] = "false"
    /\ (GlobsOf(i) = <<AnyTxtAndBar>> /\ changedFiles = <<foo_txt, bar_docx>>)
         => outcomes[i] = "false"

\* foo.txt satisfies the and-list, bar.docx the or-list, no file both
C3_Witness ==
  \E i \in Processed :
    /\ GlobsOf(i) = <<AnyTxtAndBar>>
    /\ changedFiles = <<foo_txt, bar_docx>>
    /\ outcomes[i] = "false"

(***************************************************************************)
(* C4: an entry normalized to {all?, any?} matches iff (all is absent or   *)
(* the `all` condition is true) and (any is absent or the `any` condition  *)
(* is true); an entry with neither key matches every change set, the empty *)
(* one included; a bare glob string g is evaluated as {any: [g]}.          *)
(***************************************************************************)
C4_EntryIsAllAndAny ==
  \A i \in Processed : \A k \in 1..Len(GlobsOf(i)) :
    LET raw == GlobsOf(i)[k]
        e == EntryOf(i, k)
    IN  /\ (WellTyped(e.all) /\ WellTyped(e.any))
             => EntryOutcome(i, k) =
                  Bool(/\ e.all = Undefined \/ AllHolds(changedFiles, e.all)
                       /\ e.any = Undefined \/ AnyHolds(changedFiles, e.any))
        /\ (e.all = Undefined /\ e.any = Undefined) => EntryOutcome(i, k) = "true"
        /\ raw.type = "string"
             => /\ e = MatchConfig(Undefined, Arr(<<raw>>))
                /\ EntryOutcome(i, k) =
                     Bool(\E f \in Range(changedFiles) : PatternMatches(raw.val, f))

C4_Witness ==
  \E i \in Processed :
    /\ GlobsOf(i) = <<MatchConfig(Strs(<<star_txt>>), Strs(<<bar_star>>))>>
    /\ changedFiles = <<foo_txt>>
    /\ outcomes[i] = "false"

(***************************************************************************)
(* C5: with no changed files, every `all` condition with a nonempty list   *)
(* of patterns is true and every `any` condition with a nonempty list of   *)
(* patterns is false, whatever the patterns; an entry with an `any` key    *)
(* never matches the empty change set.                                     *)
(***************************************************************************)
HasPatterns(cond) == Len(AndList(cond)) + Len(OrList(cond)) > 0

C5_EmptyChangeSet ==
  changedFiles = <<>> =>
    \A i \in Processed :
      /\ \A k \in 1..Len(GlobsOf(i)) :
           LET e == EntryOf(i, k)
               forAll == toMatchers(e.all)
               forAny == toMatchers(e.any)
           IN  /\ (e.all # Undefined /\ WellTyped(e.all) /\ HasPatterns(e.all))
                    => checkAll(changedFiles, forAll.matcherAll, forAll.matcherAny)
               /\ (e.any # Undefined /\ WellTyped(e.any) /\ HasPatterns(e.any))
                    => ~checkAny(changedFiles, forAny.matcherAll, forAny.matcherAny)
               /\ e.any # Undefined => EntryOutcome(i, k) # "true"
      /\ (\A k \in 1..Len(GlobsOf(i)) : EntryOf(i, k).any # Undefined)
           => outcomes[i] # "true"

C5_Witness ==
  /\ changedFiles = <<>>
  /\ \E i \in Processed :
       /\ GlobsOf(i) = <<MatchConfig(Strs(<<star_txt>>), Strs(<<bar_star>>))>>
       /\ checkAll(changedFiles, Compile(GlobsOf(i)[1].all.items), <<>>)
       /\ outcomes[i] = "false"

(***************************************************************************)
(* C9 as claimed: a pattern beginning with "!" matches a path iff the rest *)
(* of the pattern does not match it; and all: ["!*.md"] fails on every     *)
(* (nonempty) changed-file list that contains only ".md" files.            *)
(***************************************************************************)
PatternsOfList(list) == {list.items[j].val : j \in 1..Len(ItemsOf(list))}
PatternsOfCond(cond) ==
  IF cond = Undefined \/ ~WellTyped(cond) THEN {}
  ELSE IF cond.type = "array" THEN PatternsOfList(cond)
  ELSE PatternsOfList(cond.and) \cup PatternsOfList(cond.or)
PatternsOf(i) ==
  UNION {PatternsOfCond(EntryOf(i, k).all) \cup PatternsOfCond(EntryOf(i, k).any) :
           k \in 1..Len(GlobsOf(i))}

NegationHolds ==
  \A i \in Processed : \A g \in PatternsOf(i) :
    (g # <<>> /\ Head(g) = "!")
      => \A f \in Range(changedFiles) \cup CoreFiles :
           PatternMatches(g, f) = ~PatternMatches(Tail(g), f)

EndsInMd(f) == Len(f) >= 3 /\ SubSeq(f, Len(f) - 2, Len(f)) = <<".", "m", "d">>
OnlyMdFiles(files) ==
  files # <<>> /\ \A i \in 1..Len(files) : EndsInMd(files[i])

C9_AsClaimed ==
  /\ NegationHolds
  /\ \A i \in Processed :
       (GlobsOf(i) = <<AllNotMd>> /\ OnlyMdFiles(changedFiles))
         => outcomes[i] = "false"

(***************************************************************************)
(* C9, amended: a pattern beginning with "!" matches a path iff the rest   *)
(* of the pattern does not match it; all: ["!*.md"] on a nonempty list of  *)
(* ".md" files fails when at least one of the files is matched by "*.md"   *)
(* (it lies at the top level), and passes when none is (docs/a.md: "*"     *)
(* does not cross "/").                                                    *)
(***************************************************************************)
C9_NegatedPattern ==
  /\ NegationHolds
  /\ \A i \in Processed :
       (GlobsOf(i) = <<AllNotMd>> /\ OnlyMdFiles(changedFiles))
         => outcomes[i] =
              Bool(~\E f \in Range(changedFiles) : PatternMatches(star_md, f))

C9_Witness ==
  \E i \in Processed :
    /\ GlobsOf(i) = <<AllNotMd>>
    /\ changedFiles = <<docs_a_md, a_md>>
    /\ outcomes[i] = "false"

(***************************************************************************)
(* C10: the result of checkGlobs depends only on the set of changed file   *)
(* paths: any list with the same paths, in another order or with paths     *)
(* repeated, gives the result the run got.                                 *)
(***************************************************************************)
C10_DependsOnFileSetOnly ==
  \A i \in Processed :
    \A files \in FileLists :
      Range(files) = Range(changedFiles)
        => checkGlobs(files, GlobsOf(i)) = outcomes[i]

C10_Witness ==
  \E i \in Processed :
    /\ changedFiles = <<bar_docx, foo_txt>>
    /\ GlobsOf(i) = <<Str(star_txt)>>
    /\ outcomes[i] = "true"
    /\ checkGlobs(<<foo_txt, bar_docx>>, GlobsOf(i)) = outcomes[i]
    /\ checkGlobs(<<foo_txt, bar_docx, foo_txt>>, GlobsOf(i)) = outcomes[i]

(***************************************************************************)
(* C6 as claimed: removeLabel is called only when the caller enabled       *)
(* synchronization through the sync-labels input, and only for labels the  *)
(* pull request carried and whose rules did not match; with                *)
(* synchronization not enabled a carried label stays on the pull request;  *)
(* no label is both added and removed.                                     *)
(***************************************************************************)
CallerEnabledSync == syncInput = "true"
Added == UNION {Range(addCalls[j]) : j \in 1..Len(addCalls)}
Unmatched == {labelGlobs[i].label : i \in {j \in Processed : outcomes[j] = "false"}}

C6_RemovalOnlyWhenSyncEnabled ==
  /\ removeCalls # <<>> => CallerEnabledSync
  /\ Range(removeCalls) \subseteq (pullRequest \cap Unmatched)
  /\ ~CallerEnabledSync => (pullRequest \cap Unmatched) \subseteq prLabels
  /\ Range(removeCalls) \cap Added = {}

\* what the code does guarantee: removal needs a nonempty sync-labels input
RemovalOnlyWhenInputNonEmpty ==
  /\ removeCalls # <<>> => syncInput # ""
  /\ Range(removeCalls) \subseteq (pullRequest \cap Unmatched)
  /\ syncInput = "" => (pullRequest \cap Unmatched) \subseteq prLabels
  /\ Range(removeCalls) \cap Added = {}

(***************************************************************************)
(* C7: when an error is raised while the configuration is loaded or a      *)
(* label is evaluated (configuration error, pattern compilation error), no *)
(* label mutation is made in the run; mutation starts only after every     *)
(* label of the rule map has its decision.  (A failed run takes no further *)
(* step, so "has been" covers "will be".)                                  *)
(***************************************************************************)
C7_NoMutationOnError ==
  /\ failure \in {"config", "pattern"}
       => /\ addCalls = <<>>
          /\ removeCalls = <<>>
          /\ ~ENABLED Next
  /\ (addCalls # <<>> \/ removeCalls # <<>>)
       => /\ Len(outcomes) = Len(labelGlobs)
          /\ \A i \in Processed : outcomes[i] \in {"true", "false"}
          /\ failure \in {"none", "io"}

\* the first label matched, the second label's pattern does not compile
C7_Witness ==
  /\ failure = "pattern"
  /\ Len(outcomes) = 2
  /\ outcomes[1] = "true"
  /\ labels # <<>>

(***************************************************************************)
(* C8: loading the rule map fails with a configuration error naming the    *)
(* offending label whenever some label's value is neither a string nor a   *)
(* sequence; then no rule map is returned and no label is evaluated.  When *)
(* every value is a string or a sequence loading succeeds: a string s      *)
(* becomes the sequence [s], a sequence is kept.                           *)
(***************************************************************************)
BadIndexes ==
  {i \in 1..Len(configObject) : configObject[i].value.type \notin {"string", "array"}}
Loaded == pc \in {"loop", "removeLabels", "done"} \/ outcomes # <<>>

C8_ConfigurationError ==
  /\ failure = "config"
       => /\ BadIndexes # {}
          /\ \E i \in BadIndexes :
               /\ errLabel = configObject[i].label
               /\ \A j \in BadIndexes : i <= j
          /\ labelGlobs = <<>>
          /\ outcomes = <<>>
  /\ BadIndexes # {} => ~Loaded
  /\ BadIndexes = {} => failure # "config"
  /\ Loaded
       => labelGlobs =
            [i \in 1..Len(configObject) |->
               [label |-> configObject[i].label,
                globs |-> IF configObject[i].value.type = "string"
                            THEN <<configObject[i].value>>
                            ELSE configObject[i].value.items]]

C8_Witness ==
  /\ failure = "config"
  /\ Len(configObject) = 2
  /\ configObject[1].value.type = "string"
  /\ configObject[2].value.type = "number"
  /\ errLabel = configObject[2].label

=============================================================================
